---- MODULE Spec2Model ----
(***************************************************************************)
(* Frame sharing and presentation pipeline of ReliabilityTestingCamera:    *)
(*   video::FrameRef / ReadGuard      (include/video/frame_ref.h)          *)
(*   video::FrameBuffer               (src/video/frame_buffer.cpp)         *)
(*   video::TripleBufferRenderer      (src/video/triple_buffer_renderer.cpp)*)
(*   process_camera_frame             (src/main.cpp)                       *)
(*                                                                         *)
(* The heap of FrameData objects and pixel buffers is one variable; the    *)
(* specifications below drive it through the operations of one component   *)
(* each: SpecCow (FrameRef handles, one thread), SpecRace (read against    *)
(* write, two threads), SpecHandoff (FrameBuffer, FrameRef overload),      *)
(* SpecCamera (process_camera_frame into FrameBuffer, cv::Mat overload),   *)
(* SpecRender (TripleBufferRenderer).                                      *)
(***************************************************************************)
EXTENDS Integers, Sequences, FiniteSets, TLC

(* ---------------------------- bounds ----------------------------------- *)
\* read() calls the callers keep open at one time
MaxReads == 1
\* FrameData objects and pixel buffers that can be alive at once
MaxFd == 5
MaxBuf == 5
\* store_frame calls of the producer (frames are tagged 1..MaxStores)
MaxStores == 3
\* consume_frame calls of the consumer
MaxConsumes == 3
\* submit_frame calls of the producer on the renderer
MaxSubmits == 3
\* submit_frame calls of the steady producer
MaxSteadySubmits == 4
\* read() calls one reader thread keeps open at a time
MaxOpen == 2
\* TextureManager: frames the caller produces
MaxUploads == 3

(* ---------------------------- values ----------------------------------- *)
\* data_ == nullptr (frame_ref.h:83, the state after FrameRef::reset)
Null == 0
\* an empty cv::Mat: no pixel buffer (cv::Mat::empty())
NoBuf == 0
\* a shared_ptr caught half-way through a non-atomic assignment
Torn == -1
FdIds == 1..MaxFd
BufIds == 1..MaxBuf
\* a binary image: the bit-extraction LUT maps every pixel to 0 or 255 (main.cpp:156);
\* one buffer's contents are abstracted to one such value
Pixels == {0, 255}

VARIABLES
    heap,        \* FrameRef handles, FrameData objects, pixel buffers, cv::Mat headers
    pending,     \* SpecCow: per handle, read() calls not yet released by the caller
    lastOp,      \* SpecCow: the operation that produced the current state
    wpc, rpc,    \* SpecRace: position of the writer / reader thread
    wloc, rloc,  \* SpecRace: their locals (the cv::Mat& each holds)
    frame_consumed_, frames_dropped_, frames_generated_, mutex_,   \* FrameBuffer fields
    ppc, cpc,    \* FrameBuffer: position of the producer / consumer thread
    ploc,        \* FrameBuffer: the store_frame overload running and the frame's tag
    submitted,   \* FrameBuffer: completed store_frame calls with a non-empty frame
    consumeCalls,\* FrameBuffer: consume_frame calls begun
    accepted,    \* FrameBuffer: tags placed in the slot, in order
    returned,    \* FrameBuffer: what consume_frame returned, in order
    write_idx_, upload_idx_, display_idx_,   \* TripleBufferRenderer role indices
    buffers_,    \* TripleBufferRenderer: per slot ready, timestamp, texture, pbo
    gl,          \* TripleBufferRenderer: initialized_, width_, height_, texture images
    spc, upc,    \* TripleBufferRenderer: position of submit_frame / update
    sloc, uloc,  \* TripleBufferRenderer: their locals
    tm           \* TextureManager: texture_id_, width_, height_, the texture image

cowVars    == <<pending, lastOp>>
raceVars   == <<wpc, rpc, wloc, rloc>>
fbVars     == <<frame_consumed_, frames_dropped_, frames_generated_, mutex_,
                ppc, cpc, ploc, submitted, consumeCalls, accepted, returned>>
tbVars     == <<write_idx_, upload_idx_, display_idx_, buffers_, gl, spc, upc, sloc, uloc>>
tmVars     == <<tm>>
vars       == <<heap, cowVars, raceVars, fbVars, tbVars, tmVars>>

(* ------------------------- the heap ------------------------------------ *)
(* heap.data_[h]    : the shared_ptr<FrameData> of handle h (Null or an id) *)
(* heap.mat_[d]     : FrameData::mat_ of object d, a buffer id or NoBuf     *)
(* heap.readers_[d] : FrameData::readers_                                   *)
(* heap.px[b]       : the pixels of buffer b                                *)
(* heap.mats[m]     : cv::Mat headers held outside any FrameRef             *)

Handles(hp) == DOMAIN hp.data_

\* shared_ptr::use_count of FrameData d
UseCount(hp, d) == Cardinality({h \in Handles(hp) : hp.data_[h] = d})

LiveFd(hp, d) == \E h \in Handles(hp) : hp.data_[h] = d

\* cv::Mat reference counting: a buffer lives while a header names it
LiveBuf(hp, b) ==
    \/ \E d \in FdIds : LiveFd(hp, d) /\ hp.mat_[d] = b
    \/ \E m \in DOMAIN hp.mats : hp.mats[m] = b

SetMin(S) == CHOOSE x \in S : \A y \in S : x <= y

\* std::make_shared<FrameData>: an object no handle names
FreshFd(hp) == SetMin({d \in FdIds : ~LiveFd(hp, d)})

\* cv::Mat allocation: a buffer no header names
FreshBuf(hp) == SetMin({b \in BufIds : ~LiveBuf(hp, b)})

\* ~FrameData and cv::Mat::release when the last owner goes
Release(hp) ==
    LET m1 == [d \in FdIds |-> IF LiveFd(hp, d) THEN hp.mat_[d] ELSE NoBuf]
        r1 == [d \in FdIds |-> IF LiveFd(hp, d) THEN hp.readers_[d] ELSE 0]
        h1 == [hp EXCEPT !.mat_ = m1, !.readers_ = r1]
    IN  [h1 EXCEPT !.px = [b \in BufIds |-> IF LiveBuf(h1, b) THEN hp.px[b] ELSE 0]]

\* what a holder of handle h observes: "null", "empty" or the pixels
Obs(hp, h) ==
    IF hp.data_[h] = Null THEN [kind |-> "null"]
    ELSE IF hp.mat_[hp.data_[h]] = NoBuf THEN [kind |-> "empty"]
    ELSE [kind |-> "pixels", v |-> hp.px[hp.mat_[hp.data_[h]]]]

\* FrameRef::empty
empty(hp, h) == hp.data_[h] = Null \/ hp.mat_[hp.data_[h]] = NoBuf

\* FrameRef(): a FrameData holding an empty cv::Mat
DefaultCtor(hp, h) ==
    LET d == FreshFd(hp)
    IN  Release([hp EXCEPT !.data_[h] = d, !.mat_[d] = NoBuf, !.readers_[d] = 0])

\* FrameRef(cv::Mat&&) on a freshly produced buffer with pixels v
FromNewMat(hp, h, v) ==
    LET d == FreshFd(hp)
        b == FreshBuf(hp)
    IN  Release([hp EXCEPT !.data_[h] = d, !.mat_[d] = b, !.readers_[d] = 0, !.px[b] = v])

\* FrameRef(const cv::Mat&): FrameData(mat) copies the header, which shares the pixels
FromMat(hp, h, m) ==
    LET d == FreshFd(hp)
    IN  Release([hp EXCEPT !.data_[h] = d, !.mat_[d] = hp.mats[m], !.readers_[d] = 0])

\* FrameRef& operator=(const FrameRef&) = default
CopyAssign(hp, dst, src) == Release([hp EXCEPT !.data_[dst] = hp.data_[src]])

\* FrameRef::reset
reset(hp, h) == Release([hp EXCEPT !.data_[h] = Null])

\* a faulty variant of read: a frame without pixels is not counted
read_skips_empty(hp, h) ==
    IF hp.data_[h] = Null \/ hp.mat_[hp.data_[h]] = NoBuf THEN hp
    ELSE [hp EXCEPT !.readers_[hp.data_[h]] = @ + 1]

\* FrameRef::read: readers_.fetch_add(1) unless data_ is null
read(hp, h) ==
    IF hp.data_[h] = Null THEN hp
    ELSE [hp EXCEPT !.readers_[hp.data_[h]] = @ + 1]

\* a faulty variant of release_read: the counter is cleared instead of decremented
release_read_clears(hp, h) ==
    IF hp.data_[h] = Null THEN hp
    ELSE [hp EXCEPT !.readers_[hp.data_[h]] = 0]

\* FrameRef::release_read: readers_.fetch_sub(1) on the handle's present data_
release_read(hp, h) ==
    IF hp.data_[h] = Null THEN hp
    ELSE [hp EXCEPT !.readers_[hp.data_[h]] = @ - 1]

\* cv::Mat::clone into a new FrameData held by dst
CloneInto(hp, dst, d0) ==
    LET d == FreshFd(hp)
        b == FreshBuf(hp)
    IN  IF hp.mat_[d0] = NoBuf
        THEN Release([hp EXCEPT !.data_[dst] = d, !.mat_[d] = NoBuf, !.readers_[d] = 0])
        ELSE Release([hp EXCEPT !.data_[dst] = d, !.mat_[d] = b, !.readers_[d] = 0,
                                !.px[b] = hp.px[hp.mat_[d0]]])

\* a faulty variant of clone: the result shares the source's FrameData
clone_shares(hp, dst, src) == CopyAssign(hp, dst, src)

\* dst = src.clone()
clone(hp, dst, src) ==
    IF empty(hp, src) THEN DefaultCtor(hp, dst)
    ELSE CloneInto(hp, dst, hp.data_[src])

\* a faulty variant of NeedsCopy: the test forgets the ownership count
NeedsCopyReadersOnly(hp, h) == hp.readers_[hp.data_[h]] > 0

\* write()'s test: !data_.unique() || readers_ > 0
NeedsCopy(hp, h) ==
    \/ UseCount(hp, hp.data_[h]) # 1
    \/ hp.readers_[hp.data_[h]] > 0

\* FrameRef::write: the handle after the call (the view is its mat_)
write(hp, h) ==
    IF hp.data_[h] = Null THEN DefaultCtor(hp, h)
    ELSE IF NeedsCopy(hp, h) THEN CloneInto(hp, h, hp.data_[h])
    ELSE hp

\* a mutation of the pixels through a cv::Mat& naming buffer b
Mutate(hp, b, v) == IF b = NoBuf THEN hp ELSE [hp EXCEPT !.px[b] = v]

\* the buffer behind handle h's mat_
BufOf(hp, h) == IF hp.data_[h] = Null THEN NoBuf ELSE hp.mat_[hp.data_[h]]

\* FrameData and buffer ids are opaque addresses: rename them in the order in which
\* the handles of ord first name them (used where no cv::Mat header shares a buffer)
Canon(hp, ord) ==
    LET n == Len(ord)
        at == [i \in 1..n |-> hp.data_[ord[i]]]
        first == [i \in 1..n |-> at[i] # Null /\ \A j \in 1..(i - 1) : at[j] # at[i]]
        rank == [i \in 1..n |-> Cardinality({k \in 1..i : first[k]})]
        cnt == rank[n]
        old == [k \in 1..cnt |-> at[CHOOSE i \in 1..n : first[i] /\ rank[i] = k]]
        new == [i \in 1..n |-> IF at[i] = Null THEN Null
                               ELSE CHOOSE k \in 1..cnt : old[k] = at[i]]
        has == [k \in 1..cnt |-> hp.mat_[old[k]] # NoBuf]
    IN  [data_ |-> [h \in Handles(hp) |-> new[CHOOSE i \in 1..n : ord[i] = h]],
         mat_ |-> [d \in FdIds |-> IF d <= cnt /\ has[d] THEN d ELSE NoBuf],
         readers_ |-> [d \in FdIds |-> IF d <= cnt THEN hp.readers_[old[d]] ELSE 0],
         px |-> [b \in BufIds |-> IF b <= cnt /\ has[b] THEN hp.px[hp.mat_[old[b]]] ELSE 0],
         mats |-> hp.mats]

EmptyHeap(hs, ms) ==
    [data_ |-> [h \in hs |-> Null], mat_ |-> [d \in FdIds |-> NoBuf],
     readers_ |-> [d \in FdIds |-> 0], px |-> [b \in BufIds |-> 0],
     mats |-> [m \in ms |-> NoBuf]]

(* -------- unused components are parked in one fixed state -------------- *)
CowOff  == pending = <<>> /\ lastOp = [op |-> "off"]
RaceOff == wpc = "off" /\ rpc = "off" /\ wloc = <<>> /\ rloc = <<>>
FbOff   == /\ frame_consumed_ = TRUE /\ frames_dropped_ = 0 /\ frames_generated_ = 0
           /\ mutex_ = "free" /\ ppc = "off" /\ cpc = "off" /\ ploc = <<>>
           /\ submitted = 0 /\ consumeCalls = 0 /\ accepted = <<>> /\ returned = <<>>
TbOff   == /\ write_idx_ = 0 /\ upload_idx_ = 1 /\ display_idx_ = 2
           /\ buffers_ = <<>> /\ gl = <<>> /\ spc = "off" /\ upc = "off"
           /\ sloc = <<>> /\ uloc = <<>>
TmOff   == tm = <<>>

(* ======================================================================= *)
(* SpecCow: one thread, handles a, b, c derived from one frame             *)
(* ======================================================================= *)
CowHandles == {"a", "b", "c"}
CowOrder == <<"a", "b", "c">>

CowInit ==
    /\ heap = Canon(DefaultCtor(DefaultCtor(
                    FromNewMat(EmptyHeap(CowHandles, {}), "a", 0), "b"), "c"), CowOrder)
    /\ pending = [h \in CowHandles |-> 0]
    /\ lastOp = [op |-> "other"]
    /\ RaceOff /\ FbOff /\ TbOff /\ TmOff

\* read() calls not yet released, over all handles
Outstanding == pending["a"] + pending["b"] + pending["c"]

CowRest == UNCHANGED <<raceVars, fbVars, tbVars, tmVars>>

\* dst = src (copy assignment)
CowCopy(dst, src) ==
    /\ dst # src
    /\ heap' = Canon(CopyAssign(heap, dst, src), CowOrder)
    /\ lastOp' = [op |-> "other"]
    /\ UNCHANGED pending /\ CowRest

\* dst = src.clone()
CowClone(dst, src) ==
    /\ dst # src
    /\ heap' = Canon(clone(heap, dst, src), CowOrder)
    /\ lastOp' = [op |-> "other"]
    /\ UNCHANGED pending /\ CowRest

\* h.read(): the caller keeps the view open
CowRead(h) ==
    /\ Outstanding < MaxReads
    /\ heap.data_[h] # Null => heap.readers_[heap.data_[h]] < MaxReads
    /\ heap' = read(heap, h)
    /\ pending' = [pending EXCEPT ![h] = @ + 1]
    /\ lastOp' = [op |-> "other"]
    /\ CowRest

\* h.release_read(), paired with an earlier h.read()
CowRelease(h) ==
    /\ pending[h] > 0
    /\ heap.data_[h] # Null => heap.readers_[heap.data_[h]] > -MaxReads
    /\ heap' = release_read(heap, h)
    /\ pending' = [pending EXCEPT ![h] = @ - 1]
    /\ lastOp' = [op |-> "other"]
    /\ CowRest

\* cv::Mat& w = h.write(); then the pixels are overwritten through w
CowWrite(h, v) ==
    /\ LET hp == write(heap, h)
       IN  /\ heap' = Canon(Mutate(hp, BufOf(hp, h), v), CowOrder)
           /\ lastOp' = [op |-> "write", h |-> h,
                         copied |-> (heap.data_[h] # Null /\ hp.data_[h] # heap.data_[h])]
    /\ UNCHANGED pending /\ CowRest

CowNext ==
    \/ \E dst, src \in CowHandles : CowCopy(dst, src)
    \/ \E dst, src \in CowHandles : CowClone(dst, src)
    \/ \E h \in CowHandles : CowRead(h)
    \/ \E h \in CowHandles : CowRelease(h)
    \/ \E h \in CowHandles, v \in Pixels : CowWrite(h, v)

SpecCow == CowInit /\ [][CowNext]_vars

(* C1: a pixel mutation made through the view that write() returned on one  *)
(* handle never changes the pixel contents observed through any other       *)
(* handle.                                                                  *)
CowIsolation ==
    [][\A g \in CowHandles :
          (lastOp'.op = "write" /\ lastOp'.h # g) => Obs(heap', g) = Obs(heap, g)]_vars

\* a write() that had to copy changed its own pixels and left a sharer's as they were
CowIsolationWitness ==
    /\ lastOp.op = "write" /\ lastOp.copied
    /\ \E g \in CowHandles \ {lastOp.h} :
          /\ ~empty(heap, g) /\ ~empty(heap, lastOp.h)
          /\ Obs(heap, g) # Obs(heap, lastOp.h)
          /\ pending[g] = 0

(* ======================================================================= *)
(* SpecRace: a writer thread runs f.write() and mutates the view; a reader *)
(* thread runs read() ... release_read() on f or on its own copy g.        *)
(* Every step is one atomic operation of frame_ref.h.                      *)
(* ======================================================================= *)
RaceHandles == {"f", "g"}

RaceInit ==
    /\ heap = CopyAssign(FromNewMat(EmptyHeap(RaceHandles, {}), "f", 0), "g", "f")
    /\ wpc = "idle" /\ rpc = "idle"
    /\ wloc = [view |-> NoBuf, inplace |-> FALSE]
    /\ rloc = [h |-> "f", fd |-> Null, view |-> NoBuf]
    /\ CowOff /\ FbOff /\ TbOff /\ TmOff

RaceRest == UNCHANGED <<cowVars, fbVars, tbVars, tmVars>>

\* the reader's cv::Mat& dangles once the FrameData it points into is destroyed
Survive(hp, rl) == IF rl.fd # Null /\ LiveFd(hp, rl.fd) THEN rl
                   ELSE [rl EXCEPT !.fd = Null, !.view = NoBuf]

\* frame_ref.h:87-88  readers_.fetch_add(1); return data_->mat_
R_read(h) ==
    /\ rpc = "idle"
    /\ heap.readers_[heap.data_[h]] < MaxReads
    /\ heap' = read(heap, h)
    /\ rloc' = [h |-> h, fd |-> heap.data_[h], view |-> BufOf(heap, h)]
    /\ rpc' = "reading"
    /\ UNCHANGED <<wpc, wloc>> /\ RaceRest

\* frame_ref.h:96-100  release_read on the handle the read went through
R_release ==
    /\ rpc = "reading"
    /\ heap.readers_[heap.data_[rloc.h]] > -MaxReads
    /\ heap' = release_read(heap, rloc.h)
    /\ rloc' = [rloc EXCEPT !.fd = Null, !.view = NoBuf]
    /\ rpc' = "idle"
    /\ UNCHANGED <<wpc, wloc>> /\ RaceRest

\* frame_ref.h:113  f.write() is entered (data_ is not null here)
W_begin ==
    /\ wpc = "idle"
    /\ wpc' = "w_unique"
    /\ UNCHANGED <<heap, wloc, rpc, rloc>> /\ RaceRest

\* frame_ref.h:120  !data_.unique()
W_unique ==
    /\ wpc = "w_unique"
    /\ wpc' = IF UseCount(heap, heap.data_["f"]) # 1 THEN "w_copy" ELSE "w_readers"
    /\ UNCHANGED <<heap, wloc, rpc, rloc>> /\ RaceRest

\* frame_ref.h:120  readers_.load() > 0
W_readers ==
    /\ wpc = "w_readers"
    /\ wpc' = IF heap.readers_[heap.data_["f"]] > 0 THEN "w_copy" ELSE "w_inplace"
    /\ UNCHANGED <<heap, wloc, rpc, rloc>> /\ RaceRest

\* frame_ref.h:122,125  data_ = make_shared<FrameData>(mat_.clone()); return data_->mat_
W_copy ==
    /\ wpc = "w_copy"
    /\ heap' = CloneInto(heap, "f", heap.data_["f"])
    /\ wloc' = [view |-> BufOf(heap', "f"), inplace |-> FALSE]
    /\ rloc' = Survive(heap', rloc)
    /\ wpc' = "w_mutate"
    /\ UNCHANGED rpc /\ RaceRest

\* frame_ref.h:125  return data_->mat_ without a copy
W_inplace ==
    /\ wpc = "w_inplace"
    /\ wloc' = [view |-> BufOf(heap, "f"), inplace |-> TRUE]
    /\ wpc' = "w_mutate"
    /\ UNCHANGED <<heap, rpc, rloc>> /\ RaceRest

\* the caller overwrites the pixels through the view write() returned
W_mutate(v) ==
    /\ wpc = "w_mutate"
    /\ heap' = Mutate(heap, wloc.view, v)
    /\ wpc' = "idle"
    /\ UNCHANGED <<wloc, rpc, rloc>> /\ RaceRest

\* the reader thread takes a fresh copy of the frame between two write() calls
R_share ==
    /\ rpc = "idle" /\ wpc = "idle"
    /\ heap.data_["g"] # heap.data_["f"]
    /\ heap' = CopyAssign(heap, "g", "f")
    /\ UNCHANGED <<wpc, wloc, rpc, rloc>> /\ RaceRest

RaceNext ==
    \/ \E h \in RaceHandles : R_read(h)
    \/ R_release
    \/ W_begin \/ W_unique \/ W_readers \/ W_copy \/ W_inplace
    \/ \E v \in Pixels : W_mutate(v)
    \/ R_share

SpecRace == RaceInit /\ [][RaceNext]_vars

\* a read of the buffer the writer's view names is pending
ReadPendingOn(b) == rpc = "reading" /\ rloc.view # NoBuf /\ rloc.view = b

(* C3: under every interleaving of read() ... release_read() with write()   *)
(* and the mutation, the writer never mutates a buffer in place while a     *)
(* read of that buffer is pending.                                          *)
NoInPlaceMutationUnderRead ==
    [][(wpc = "w_mutate" /\ wpc' = "idle" /\ wloc.inplace) => ~ReadPendingOn(wloc.view)]_vars

(* ======================================================================= *)
(* FrameBuffer: one producer thread in store_frame, one consumer thread in *)
(* consume_frame; every step is one atomic access or one locked statement. *)
(* Handles: current_frame_ (the slot), arg (the frame being stored), got   *)
(* (the optional<FrameRef> the consumer received last).                    *)
(* ======================================================================= *)
FbHandles == {"current_frame_", "arg", "got"}

\* FrameBuffer() = default: an empty current_frame_, frame_consumed_{true}, counters 0
FbFields ==
    /\ frame_consumed_ = TRUE /\ frames_dropped_ = 0 /\ frames_generated_ = 0
    /\ mutex_ = "free" /\ ppc = "idle" /\ cpc = "idle"
    /\ ploc = [mode |-> "none", tag |-> 0]
    /\ submitted = 0 /\ consumeCalls = 0 /\ accepted = <<>> /\ returned = <<>>

FbRest == UNCHANGED <<cowVars, raceVars, tbVars, tmVars>>
FbHist == <<submitted, consumeCalls, accepted, returned>>

\* the tag a frame carries in its pixels (0: no frame, Torn: a torn handle)
TagOf(hp, h) ==
    IF hp.data_[h] = Torn THEN Torn
    ELSE IF empty(hp, h) THEN 0 ELSE hp.px[BufOf(hp, h)]

\* the caller of store_frame(const FrameRef&) hands in a new frame tagged n
P_call(n) ==
    /\ ppc = "idle" /\ n = submitted + 1 /\ n <= MaxStores
    /\ heap' = FromNewMat(heap, "arg", n)
    /\ ploc' = [mode |-> "ref", tag |-> n]
    /\ ppc' = "p_empty"
    /\ UNCHANGED <<frame_consumed_, frames_dropped_, frames_generated_, mutex_, cpc, FbHist>>
    /\ FbRest

\* the caller of store_frame(const FrameRef&) hands in an empty frame
P_call_empty ==
    /\ ppc = "idle"
    /\ heap' = DefaultCtor(heap, "arg")
    /\ ploc' = [mode |-> "ref", tag |-> 0]
    /\ ppc' = "p_empty"
    /\ UNCHANGED <<frame_consumed_, frames_dropped_, frames_generated_, mutex_, cpc, FbHist>>
    /\ FbRest

\* frame_buffer.cpp:6,25  if (frame.empty()) return;
IsEmptyArg == IF ploc.mode = "mat" THEN heap.mats["combined"] = NoBuf ELSE empty(heap, "arg")

\* a faulty variant of P_empty: an empty frame is counted as a dropped frame
P_empty_counted ==
    /\ ppc = "p_empty"
    /\ IF IsEmptyArg
       THEN /\ ppc' = "idle"
            /\ heap' = reset(heap, "arg")
            /\ ploc' = [mode |-> "none", tag |-> 0]
            /\ frames_dropped_' = frames_dropped_ + 1
       ELSE /\ ppc' = "p_consumed"
            /\ UNCHANGED <<heap, ploc, frames_dropped_>>
    /\ UNCHANGED <<frame_consumed_, frames_generated_, mutex_, cpc, FbHist>>
    /\ FbRest

P_empty ==
    /\ ppc = "p_empty"
    /\ IF IsEmptyArg
       THEN /\ ppc' = "idle"
            /\ heap' = reset(heap, "arg")
            /\ ploc' = [mode |-> "none", tag |-> 0]
       ELSE /\ ppc' = "p_consumed"
            /\ UNCHANGED <<heap, ploc>>
    /\ UNCHANGED <<frame_consumed_, frames_dropped_, frames_generated_, mutex_, cpc, FbHist>>
    /\ FbRest

\* a faulty variant of P_consumed: store_frame does not look at frame_consumed_
P_consumed_ignored ==
    /\ ppc = "p_consumed"
    /\ ppc' = "p_lock"
    /\ UNCHANGED <<heap, ploc, frame_consumed_, frames_dropped_, frames_generated_, mutex_,
                   cpc, FbHist>>
    /\ FbRest

\* frame_buffer.cpp:12,30  if (!frame_consumed_.load())
P_consumed ==
    /\ ppc = "p_consumed"
    /\ ppc' = IF ~frame_consumed_ THEN "p_drop" ELSE "p_lock"
    /\ UNCHANGED <<heap, ploc, frame_consumed_, frames_dropped_, frames_generated_, mutex_,
                   cpc, FbHist>>
    /\ FbRest

\* a faulty variant of P_drop: the new frame replaces the waiting one ("freshest wins")
P_drop_overwrites ==
    /\ ppc = "p_drop"
    /\ frames_dropped_' = frames_dropped_ + 1
    /\ heap' = reset(CopyAssign(heap, "current_frame_", "arg"), "arg")
    /\ ploc' = [mode |-> "none", tag |-> 0]
    /\ submitted' = submitted + 1
    /\ ppc' = "idle"
    /\ UNCHANGED <<frame_consumed_, frames_generated_, mutex_, cpc,
                   consumeCalls, accepted, returned>>
    /\ FbRest

\* a faulty variant of P_drop: a dropped frame is counted as generated too
P_drop_counts_generated ==
    /\ ppc = "p_drop"
    /\ frames_dropped_' = frames_dropped_ + 1
    /\ frames_generated_' = frames_generated_ + 1
    /\ heap' = reset(heap, "arg")
    /\ ploc' = [mode |-> "none", tag |-> 0]
    /\ submitted' = submitted + 1
    /\ ppc' = "idle"
    /\ UNCHANGED <<frame_consumed_, mutex_, cpc, consumeCalls, accepted, returned>>
    /\ FbRest

\* frame_buffer.cpp:13-14,31-32  frames_dropped_++; return;
P_drop ==
    /\ ppc = "p_drop"
    /\ frames_dropped_' = frames_dropped_ + 1
    /\ heap' = reset(heap, "arg")
    /\ ploc' = [mode |-> "none", tag |-> 0]
    /\ submitted' = submitted + 1
    /\ ppc' = "idle"
    /\ UNCHANGED <<frame_consumed_, frames_generated_, mutex_, cpc,
                   consumeCalls, accepted, returned>>
    /\ FbRest

\* a faulty variant of P_lock: store_frame enters its critical section without the mutex
P_lock_unguarded ==
    /\ ppc = "p_lock"
    /\ ppc' = "p_assign"
    /\ UNCHANGED <<heap, ploc, frame_consumed_, frames_dropped_, frames_generated_, mutex_,
                   cpc, FbHist>>
    /\ FbRest

\* frame_buffer.cpp:17,35  std::lock_guard<std::mutex> lock(mutex_): waits while held
P_lock ==
    /\ ppc = "p_lock"
    /\ mutex_ = "free"
    /\ mutex_' = "producer"
    /\ ppc' = "p_assign"
    /\ UNCHANGED <<heap, ploc, frame_consumed_, frames_dropped_, frames_generated_, cpc, FbHist>>
    /\ FbRest

\* frame_buffer.cpp:19,37  current_frame_ = ...: the shared_ptr assignment is not atomic;
\* the cv::Mat overload first builds the temporary FrameRef(frame)
P_assign ==
    /\ ppc = "p_assign"
    /\ LET hp == IF ploc.mode = "mat" THEN FromMat(heap, "arg", "combined") ELSE heap
       IN  heap' = Release([hp EXCEPT !.data_["current_frame_"] = Torn])
    /\ ppc' = "p_assigned"
    /\ UNCHANGED <<ploc, frame_consumed_, frames_dropped_, frames_generated_, mutex_, cpc, FbHist>>
    /\ FbRest

P_assigned ==
    /\ ppc = "p_assigned"
    /\ LET hp == CopyAssign(heap, "current_frame_", "arg")
       IN  heap' = IF ploc.mode = "mat" THEN reset(hp, "arg") ELSE hp
    /\ accepted' = Append(accepted, ploc.tag)
    /\ ppc' = "p_flag"
    /\ UNCHANGED <<ploc, frame_consumed_, frames_dropped_, frames_generated_, mutex_, cpc,
                   submitted, consumeCalls, returned>>
    /\ FbRest

\* frame_buffer.cpp:20,38  frame_consumed_.store(false)
P_flag ==
    /\ ppc = "p_flag"
    /\ frame_consumed_' = FALSE
    /\ ppc' = "p_gen"
    /\ UNCHANGED <<heap, ploc, frames_dropped_, frames_generated_, mutex_, cpc, FbHist>>
    /\ FbRest

\* frame_buffer.cpp:21,39  frames_generated_++
P_gen ==
    /\ ppc = "p_gen"
    /\ frames_generated_' = frames_generated_ + 1
    /\ ppc' = "p_unlock"
    /\ UNCHANGED <<heap, ploc, frame_consumed_, frames_dropped_, mutex_, cpc, FbHist>>
    /\ FbRest

\* frame_buffer.cpp:22,40  ~lock_guard, return; the caller lets its frame go
P_unlock ==
    /\ ppc = "p_unlock"
    /\ mutex_' = IF mutex_ = "producer" THEN "free" ELSE mutex_
    /\ heap' = reset(heap, "arg")
    /\ ploc' = [mode |-> "none", tag |-> 0]
    /\ submitted' = submitted + 1
    /\ ppc' = "idle"
    /\ UNCHANGED <<frame_consumed_, frames_dropped_, frames_generated_, cpc,
                   consumeCalls, accepted, returned>>
    /\ FbRest

\* main.cpp:1275  auto frame_opt = consume_frame(): the previous optional is gone
C_call ==
    /\ cpc = "idle" /\ consumeCalls < MaxConsumes
    /\ consumeCalls' = consumeCalls + 1
    /\ heap' = reset(heap, "got")
    /\ cpc' = "c_lock"
    /\ UNCHANGED <<ploc, frame_consumed_, frames_dropped_, frames_generated_, mutex_, ppc,
                   submitted, accepted, returned>>
    /\ FbRest

\* frame_buffer.cpp:61  std::lock_guard<std::mutex> lock(mutex_)
C_lock ==
    /\ cpc = "c_lock"
    /\ mutex_ = "free"
    /\ mutex_' = "consumer"
    /\ cpc' = "c_check"
    /\ UNCHANGED <<heap, ploc, frame_consumed_, frames_dropped_, frames_generated_, ppc, FbHist>>
    /\ FbRest

\* a faulty variant of C_check: consume_frame does not look at frame_consumed_
C_check_flag_ignored ==
    /\ cpc = "c_check"
    /\ cpc' = "c_set"
    /\ UNCHANGED <<heap, ploc, frame_consumed_, frames_dropped_, frames_generated_, mutex_,
                   ppc, FbHist>>
    /\ FbRest

\* frame_buffer.cpp:63-65  if (frame_consumed_.load()) return std::nullopt;
C_check ==
    /\ cpc = "c_check"
    /\ cpc' = IF frame_consumed_ THEN "c_unlock" ELSE "c_set"
    /\ UNCHANGED <<heap, ploc, frame_consumed_, frames_dropped_, frames_generated_, mutex_,
                   ppc, FbHist>>
    /\ FbRest

\* a faulty variant of C_set: consume_frame returns the frame without marking it consumed
C_set_forgotten ==
    /\ cpc = "c_set"
    /\ cpc' = "c_copy"
    /\ UNCHANGED <<heap, ploc, frame_consumed_, frames_dropped_, frames_generated_, mutex_,
                   ppc, FbHist>>
    /\ FbRest

\* frame_buffer.cpp:67  frame_consumed_.store(true)
C_set ==
    /\ cpc = "c_set"
    /\ frame_consumed_' = TRUE
    /\ cpc' = "c_copy"
    /\ UNCHANGED <<heap, ploc, frames_dropped_, frames_generated_, mutex_, ppc, FbHist>>
    /\ FbRest

\* a faulty variant of C_copy: consume_frame moves current_frame_ out of the slot
C_copy_moves ==
    /\ cpc = "c_copy"
    /\ heap' = reset(CopyAssign(heap, "got", "current_frame_"), "current_frame_")
    /\ returned' = Append(returned, TagOf(heap, "current_frame_"))
    /\ cpc' = "c_unlock"
    /\ UNCHANGED <<ploc, frame_consumed_, frames_dropped_, frames_generated_, mutex_, ppc,
                   submitted, consumeCalls, accepted>>
    /\ FbRest

\* frame_buffer.cpp:69  return current_frame_ (a copy of the handle)
C_copy ==
    /\ cpc = "c_copy"
    /\ heap' = CopyAssign(heap, "got", "current_frame_")
    /\ returned' = Append(returned, TagOf(heap, "current_frame_"))
    /\ cpc' = "c_unlock"
    /\ UNCHANGED <<ploc, frame_consumed_, frames_dropped_, frames_generated_, mutex_, ppc,
                   submitted, consumeCalls, accepted>>
    /\ FbRest

\* frame_buffer.cpp:70  ~lock_guard
C_unlock ==
    /\ cpc = "c_unlock"
    /\ mutex_' = IF mutex_ = "consumer" THEN "free" ELSE mutex_
    /\ cpc' = "idle"
    /\ UNCHANGED <<heap, ploc, frame_consumed_, frames_dropped_, frames_generated_, ppc, FbHist>>
    /\ FbRest

FbConsumer == C_call \/ C_lock \/ C_check \/ C_set \/ C_copy \/ C_unlock

FbStore == P_empty \/ P_consumed \/ P_drop \/ P_lock \/ P_assign \/ P_assigned
              \/ P_flag \/ P_gen \/ P_unlock

(* ----------------------------------------------------------------------- *)
(* SpecHandoff: frames tagged 1, 2, 3, ... through store_frame(const       *)
(* FrameRef&) and consume_frame                                            *)
(* ----------------------------------------------------------------------- *)
HandoffInit ==
    /\ heap = DefaultCtor(EmptyHeap(FbHandles, {}), "current_frame_")
    /\ FbFields
    /\ CowOff /\ RaceOff /\ TbOff /\ TmOff

HandoffNext ==
    \/ \E n \in 1..MaxStores : P_call(n)
    \/ P_call_empty
    \/ FbStore
    \/ FbConsumer

SpecHandoff == HandoffInit /\ [][HandoffNext]_vars

(* C4 as stated: after N >= 1 store_frame calls with non-empty frames and   *)
(* no consume, frames_generated() == N and frames_dropped() == N - 1.       *)
DropAccountingAsClaimed ==
    (ppc = "idle" /\ consumeCalls = 0 /\ submitted >= 1)
        => (frames_generated_ = submitted /\ frames_dropped_ = submitted - 1)

UnconsumedNeverOverwritten ==
    [][/\ (ppc = "p_drop" /\ ppc' = "idle")
            => /\ Obs(heap', "current_frame_") = Obs(heap, "current_frame_")
               /\ heap'.data_["current_frame_"] = heap.data_["current_frame_"]
               /\ frames_dropped_' = frames_dropped_ + 1
               /\ frames_generated_' = frames_generated_
               /\ frame_consumed_' = frame_consumed_
       /\ (~frame_consumed_ /\ ~frame_consumed_')
            => heap'.data_["current_frame_"] = heap.data_["current_frame_"]
       /\ (cpc = "c_copy" /\ cpc' = "c_unlock")
            => TagOf(heap', "got") = accepted[Len(accepted)]]_vars

\* a frame was dropped while frame 1 waited, and frame 1 is still in the slot
UnconsumedNeverOverwrittenWitness ==
    /\ ~frame_consumed_ /\ frames_dropped_ >= 1 /\ ppc = "idle"
    /\ TagOf(heap, "current_frame_") = 1 /\ submitted >= 2

(* C7: in no interleaving does the producer wait inside store_frame for a   *)
(* lock the consumer holds.                                                 *)
StoreNeverWaits == ~(ppc = "p_lock" /\ mutex_ = "consumer")

(* C8: every frame consume returns is wholly one stored frame, the tags     *)
(* returned are in increasing order, and no stored frame is returned twice. *)
NoTornNoReorder ==
    /\ heap.data_["got"] # Torn
    /\ \A i \in 1..Len(returned) :
          /\ returned[i] \in 1..MaxStores
          /\ returned[i] <= submitted + 1
          /\ returned[i] \in {accepted[j] : j \in 1..Len(accepted)}
    /\ \A i, j \in 1..Len(returned) : i < j => returned[i] < returned[j]

\* frames 1 and 3 were consumed, frame 2 was dropped in between
NoTornNoReorderWitness ==
    returned = <<1, 3>> /\ frames_dropped_ = 1 /\ TagOf(heap, "got") = 3

(* C21: consume_frame returns a frame exactly when the slot holds an        *)
(* unconsumed frame at its test, and that call leaves the slot consumed; on *)
(* a consumed slot it returns nothing and leaves the flag, the counters and *)
(* the stored frame alone; a consume that returns a frame always has a      *)
(* store of its own since the previous one that did.                        *)
ConsumeStateMachine ==
    [][/\ (cpc = "c_check" /\ cpc' # cpc)
            => /\ (cpc' = "c_set") <=> ~frame_consumed_
               /\ (cpc' = "c_unlock") <=> frame_consumed_
               /\ ~frame_consumed_ => Len(accepted) = Len(returned) + 1
       /\ (cpc = "c_copy" /\ cpc' = "c_unlock")
            => /\ ~empty(heap', "got")
               /\ Len(returned') = Len(returned) + 1
               /\ Len(returned') = Len(accepted)
               /\ frame_consumed_'
       /\ (cpc # cpc' /\ cpc \notin {"c_set", "c_copy"})
            => /\ frame_consumed_' = frame_consumed_
               /\ frames_dropped_' = frames_dropped_
               /\ frames_generated_' = frames_generated_
               /\ heap'.data_["current_frame_"] = heap.data_["current_frame_"]
               /\ returned' = returned
       /\ (cpc = "c_unlock" /\ cpc' = "idle")
            => frame_consumed_']_vars

\* one frame was stored; the first consume returned it, the second returned nothing
ConsumeStateMachineWitness ==
    /\ cpc = "idle" /\ ppc = "idle" /\ consumeCalls = 2 /\ submitted = 1
    /\ returned = <<1>> /\ empty(heap, "got") /\ frame_consumed_
    /\ frames_generated_ = 1 /\ frames_dropped_ = 0

\* frame_buffer.cpp:72-74  return !frame_consumed_.load()
has_unconsumed_frame == ~frame_consumed_

\* the stores whose frame has become visible (frame_consumed_.store(false) executed)
StoresPlaced == Len(accepted) - (IF ppc = "p_flag" THEN 1 ELSE 0)

\* the consumes that have taken a frame (frame_consumed_.store(true) executed)
ConsumesTaken == Len(returned) + (IF cpc = "c_copy" THEN 1 ELSE 0)

(* C22: with one producer and one consumer, the number of stores that       *)
(* placed a frame minus the number of consumes that returned one is 0 or 1  *)
(* in every state, and has_unconsumed_frame() is true exactly when it is 1. *)
AtMostOneUnconsumed ==
    /\ Len(accepted) - Len(returned) \in {0, 1}
    /\ StoresPlaced - ConsumesTaken \in {0, 1}
    /\ has_unconsumed_frame <=> (StoresPlaced - ConsumesTaken = 1)
    /\ (ppc = "idle" /\ cpc = "idle")
          => (has_unconsumed_frame <=> Len(accepted) - Len(returned) = 1)

\* the second frame placed is waiting after the first was consumed
AtMostOneUnconsumedWitness ==
    /\ ppc = "idle" /\ cpc = "idle" /\ has_unconsumed_frame
    /\ Len(accepted) = 2 /\ Len(returned) = 1

(* ----------------------------------------------------------------------- *)
(* SpecCamera: the camera callback process_camera_frame writes the static  *)
(* cv::Mat camera_bits.combined and stores it with store_frame(const       *)
(* cv::Mat&); the render loop consumes and may write() the frame it got.   *)
(* ----------------------------------------------------------------------- *)
CameraInit ==
    /\ heap = DefaultCtor(EmptyHeap(FbHandles, {"combined"}), "current_frame_")
    /\ FbFields
    /\ CowOff /\ RaceOff /\ TbOff /\ TmOff

\* main.cpp:196  cv::bitwise_or(bit1, bit2, camera_bits.combined): cv::Mat::create keeps
\* the buffer of a destination that already has the size and type, whoever shares it;
\* main.cpp:199  store_frame(camera_bits.combined) is entered
process_camera_frame(v) ==
    /\ ppc = "idle" /\ submitted < MaxStores
    /\ LET b == IF heap.mats["combined"] = NoBuf THEN FreshBuf(heap) ELSE heap.mats["combined"]
       IN  heap' = [heap EXCEPT !.mats["combined"] = b, !.px[b] = v]
    /\ ploc' = [mode |-> "mat", tag |-> v]
    /\ ppc' = "p_empty"
    /\ UNCHANGED <<frame_consumed_, frames_dropped_, frames_generated_, mutex_, cpc, FbHist>>
    /\ FbRest

\* the consumer asks the frame it received for a mutable view and overwrites the pixels
C_write(v) ==
    /\ cpc = "idle" /\ heap.data_["got"] # Null
    /\ LET hp == write(heap, "got")
       IN  heap' = Mutate(hp, BufOf(hp, "got"), v)
    /\ heap' # heap
    /\ UNCHANGED <<fbVars>>
    /\ FbRest

CameraNext ==
    \/ \E v \in Pixels : process_camera_frame(v)
    \/ FbStore
    \/ FbConsumer
    \/ \E v \in Pixels : C_write(v)

SpecCamera == CameraInit /\ [][CameraNext]_vars

(* C2: once a cv::Mat has been wrapped into a FrameRef and stored, later    *)
(* writes of the producer into its own buffer never change the pixels the   *)
(* consumer observes for the stored frame, and a write() on the FrameRef    *)
(* never changes the producer's buffer.                                     *)
HandedInFrameImmutable ==
    [][/\ (ppc = "idle" /\ ppc' = "p_empty")
            => \A h \in {"current_frame_", "got"} : Obs(heap', h) = Obs(heap, h)
       /\ (cpc = "idle" /\ cpc' = "idle" /\ ppc' = ppc /\ heap.mats["combined"] # NoBuf)
            => heap'.px[heap.mats["combined"]] = heap.px[heap.mats["combined"]]]_vars

(* ======================================================================= *)
(* TripleBufferRenderer: a producer thread in submit_frame, the render     *)
(* thread in update; every step is one atomic access or one statement.     *)
(* Handles: b0, b1, b2 (buffers_[i].frame), sarg (the frame submitted).    *)
(* A frame's pixels are abstracted to [tag, size]: which submission it is  *)
(* and which dimensions (cols x rows) it has.                              *)
(* History kept beside the locals where uloc.track is set: sloc.done[i],   *)
(* the last submission that completed into slot i; uloc.entered[i], the    *)
(* submissions completed when slot i last took the write role; uloc.picked *)
(* and uloc.shown, per rotating update() the timestamp of the slot it      *)
(* picked up and the image of the texture it left in the display role;     *)
(* uloc.lost, a transfer has failed.                                       *)
(* ======================================================================= *)
NUM_BUFFERS == 3
Slots == 0..(NUM_BUFFERS - 1)
SlotFrame == [i \in Slots |-> <<"b0", "b1", "b2">>[i + 1]]
TbHandles == {"b0", "b1", "b2", "sarg"}
\* the dimensions a frame can have
Sizes == {"640x480", "1280x720"}

\* std::array<BufferSlot, 3> with default members (triple_buffer_renderer.h:88-94)
NewSlot == [ready |-> FALSE, timestamp |-> 0, texture |-> 0, pbo |-> 0]

\* the state a TripleBufferRenderer is constructed in (triple_buffer_renderer.h:101-111)
TbFieldsWith(track) ==
    /\ write_idx_ = 0 /\ upload_idx_ = 1 /\ display_idx_ = 2
    /\ buffers_ = [i \in Slots |-> NewSlot]
    /\ gl = [initialized_ |-> FALSE, width_height_ |-> "0x0",
             image |-> [i \in Slots |-> 0]]
    /\ spc = "idle" /\ upc = "idle"
    /\ sloc = [idx |-> 0, tag |-> 0, submits |-> 0, done |-> [i \in Slots |-> 0]]
    /\ uloc = [write_idx |-> 0, upload_idx |-> 0, display_idx |-> 0,
               view |-> NoBuf, cols_rows |-> "0x0", ptr |-> FALSE,
               transfer |-> "none", last |-> "none", texture_id |-> 0,
               entered |-> [i \in Slots |-> 0],
               picked |-> <<>>, shown |-> <<>>, lost |-> FALSE, track |-> track]

TbFields == TbFieldsWith(FALSE)

TbRest == UNCHANGED <<cowVars, raceVars, fbVars, tmVars>>
TbIdx == <<write_idx_, upload_idx_, display_idx_>>

\* the caller of submit_frame(const FrameRef&) hands in a new frame tagged n of size sz
S_call(n, sz) ==
    /\ spc = "idle" /\ n = sloc.submits + 1
    /\ heap' = FromNewMat(heap, "sarg", [tag |-> n, size |-> sz])
    /\ sloc' = [sloc EXCEPT !.tag = n]
    /\ spc' = "s_empty"
    /\ UNCHANGED <<TbIdx, buffers_, gl, upc, uloc>> /\ TbRest

\* the caller hands in an empty frame
S_call_empty ==
    /\ spc = "idle"
    /\ heap' = DefaultCtor(heap, "sarg")
    /\ sloc' = [sloc EXCEPT !.tag = 0]
    /\ spc' = "s_empty"
    /\ UNCHANGED <<TbIdx, buffers_, gl, upc, uloc>> /\ TbRest

\* triple_buffer_renderer.cpp:108-110  if (frame_ref.empty()) return;
S_empty ==
    /\ spc = "s_empty"
    /\ IF empty(heap, "sarg")
       THEN spc' = "idle" /\ heap' = reset(heap, "sarg")
       ELSE spc' = "s_load" /\ heap' = heap
    /\ UNCHANGED <<sloc, TbIdx, buffers_, gl, upc, uloc>> /\ TbRest

\* a faulty variant of S_load: the producer waits until no update() is in progress
S_load_waits ==
    /\ spc = "s_load" /\ upc = "idle"
    /\ sloc' = [sloc EXCEPT !.idx = write_idx_]
    /\ spc' = "s_frame"
    /\ UNCHANGED <<heap, TbIdx, buffers_, gl, upc, uloc>> /\ TbRest

\* triple_buffer_renderer.cpp:112  int idx = write_idx_.load()
S_load ==
    /\ spc = "s_load"
    /\ sloc' = [sloc EXCEPT !.idx = write_idx_]
    /\ spc' = "s_frame"
    /\ UNCHANGED <<heap, TbIdx, buffers_, gl, upc, uloc>> /\ TbRest

\* triple_buffer_renderer.cpp:115  buffers_[idx].frame = frame_ref: not atomic
S_frame ==
    /\ spc = "s_frame"
    /\ heap' = Release([heap EXCEPT !.data_[SlotFrame[sloc.idx]] = Torn])
    /\ spc' = "s_framed"
    /\ UNCHANGED <<sloc, TbIdx, buffers_, gl, upc, uloc>> /\ TbRest

S_framed ==
    /\ spc = "s_framed"
    /\ heap' = CopyAssign(heap, SlotFrame[sloc.idx], "sarg")
    /\ spc' = "s_stamp"
    /\ UNCHANGED <<sloc, TbIdx, buffers_, gl, upc, uloc>> /\ TbRest

\* triple_buffer_renderer.cpp:116-118  buffers_[idx].timestamp.store(now)
S_stamp ==
    /\ spc = "s_stamp"
    /\ buffers_' = [buffers_ EXCEPT ![sloc.idx].timestamp = sloc.tag]
    /\ spc' = "s_ready"
    /\ UNCHANGED <<heap, sloc, TbIdx, gl, upc, uloc>> /\ TbRest

\* a faulty variant of S_ready: submit_frame returns without setting the ready flag
S_ready_unset ==
    /\ spc = "s_ready"
    /\ heap' = reset(heap, "sarg")
    /\ sloc' = [sloc EXCEPT !.submits = @ + 1, !.tag = 0, !.done[sloc.idx] = IF uloc.track THEN sloc.submits + 1 ELSE @]
    /\ spc' = "idle"
    /\ UNCHANGED <<buffers_, TbIdx, gl, upc, uloc>> /\ TbRest

\* triple_buffer_renderer.cpp:119-120  buffers_[idx].ready.store(true); return
S_ready ==
    /\ spc = "s_ready"
    /\ buffers_' = [buffers_ EXCEPT ![sloc.idx].ready = TRUE]
    /\ heap' = reset(heap, "sarg")
    /\ sloc' = [sloc EXCEPT !.submits = @ + 1, !.tag = 0, !.done[sloc.idx] = IF uloc.track THEN sloc.submits + 1 ELSE @]
    /\ spc' = "idle"
    /\ UNCHANGED <<TbIdx, gl, upc, uloc>> /\ TbRest

\* triple_buffer_renderer.cpp:139  int write_idx = write_idx_.load()
U_loadw ==
    /\ upc = "idle"
    /\ uloc' = [uloc EXCEPT !.write_idx = write_idx_, !.transfer = "none",
                            !.last = "none", !.texture_id = 0]
    /\ upc' = "u_loadu"
    /\ UNCHANGED <<heap, TbIdx, buffers_, gl, spc, sloc>> /\ TbRest

\* triple_buffer_renderer.cpp:140  int upload_idx = upload_idx_.load()
U_loadu ==
    /\ upc = "u_loadu"
    /\ uloc' = [uloc EXCEPT !.upload_idx = upload_idx_]
    /\ upc' = "u_ready"
    /\ UNCHANGED <<heap, TbIdx, buffers_, gl, spc, sloc>> /\ TbRest

\* a faulty variant of U_ready: update() rotates whether or not the slot is ready
U_ready_unchecked ==
    /\ upc = "u_ready"
    /\ upc' = "u_storew"
    /\ uloc' = [uloc EXCEPT !.picked =
          IF uloc.track THEN Append(@, buffers_[uloc.write_idx].timestamp) ELSE @]
    /\ UNCHANGED <<heap, TbIdx, buffers_, gl, spc, sloc>> /\ TbRest

\* triple_buffer_renderer.cpp:142  if (buffers_[write_idx].ready.load())
U_ready ==
    /\ upc = "u_ready"
    /\ IF buffers_[uloc.write_idx].ready
       THEN upc' = "u_storew"
            /\ uloc' = [uloc EXCEPT !.picked =
                  IF uloc.track THEN Append(@, buffers_[uloc.write_idx].timestamp) ELSE @]
       ELSE upc' = "idle" /\ uloc' = [uloc EXCEPT !.last = "update"]
    /\ UNCHANGED <<heap, TbIdx, buffers_, gl, spc, sloc>> /\ TbRest

\* triple_buffer_renderer.cpp:144  write_idx_.store(upload_idx)
U_storew ==
    /\ upc = "u_storew"
    /\ write_idx_' = uloc.upload_idx
    /\ uloc' = [uloc EXCEPT !.entered[uloc.upload_idx] =
                                IF uloc.track THEN sloc.submits ELSE @]
    /\ upc' = "u_storeu"
    /\ UNCHANGED <<heap, upload_idx_, display_idx_, buffers_, gl, spc, sloc>> /\ TbRest

\* triple_buffer_renderer.cpp:145  upload_idx_.store(write_idx)
U_storeu ==
    /\ upc = "u_storeu"
    /\ upload_idx_' = uloc.write_idx
    /\ upc' = "u_clear"
    /\ UNCHANGED <<heap, write_idx_, display_idx_, buffers_, gl, spc, sloc, uloc>> /\ TbRest

\* triple_buffer_renderer.cpp:146  buffers_[write_idx].ready.store(false)
U_clear ==
    /\ upc = "u_clear"
    /\ buffers_' = [buffers_ EXCEPT ![uloc.write_idx].ready = FALSE]
    /\ upc' = "a_empty"
    /\ UNCHANGED <<heap, TbIdx, gl, spc, sloc, uloc>> /\ TbRest

\* the slot update() hands to async_upload_frame: buffers_[upload_idx], with the
\* upload_idx loaded at line 140 (triple_buffer_renderer.cpp:149)
UploadSlot == uloc.upload_idx

\* triple_buffer_renderer.cpp:64-66  if (slot.frame.empty()) return; a handle caught
\* half-assigned by a concurrent submit_frame reads either way
A_empty ==
    /\ upc = "a_empty"
    /\ \E e \in IF heap.data_[SlotFrame[UploadSlot]] = Torn THEN BOOLEAN
                ELSE {empty(heap, SlotFrame[UploadSlot])} :
          upc' = IF e THEN "u_loadd" ELSE "a_guard"
    /\ UNCHANGED <<heap, TbIdx, buffers_, gl, spc, sloc, uloc>> /\ TbRest

\* triple_buffer_renderer.cpp:69-70  ReadGuard guard(slot.frame); frame = guard.get();
\* through a half-assigned handle the view is garbage and no counter is touched
A_guard ==
    /\ upc = "a_guard"
    /\ LET h == SlotFrame[UploadSlot]
       IN  IF heap.data_[h] = Torn
           THEN /\ heap' = heap
                /\ uloc' = [uloc EXCEPT !.view = Torn, !.cols_rows = "0x0"]
           ELSE /\ heap' = read(heap, h)
                /\ uloc' = [uloc EXCEPT !.view = BufOf(heap, h),
                               !.cols_rows = IF BufOf(heap, h) = NoBuf THEN "0x0"
                                             ELSE heap.px[BufOf(heap, h)].size]
    /\ upc' = "a_ensure"
    /\ UNCHANGED <<TbIdx, buffers_, gl, spc, sloc>> /\ TbRest

\* TripleBufferRenderer::reset on the fields (triple_buffer_renderer.cpp:167-189)
ResetSlots(bs) == [i \in Slots |-> [bs[i] EXCEPT !.texture = 0, !.pbo = 0, !.ready = FALSE]]
ResetFrames(hp) == reset(reset(reset(hp, "b0"), "b1"), "b2")

\* the cv::Mat& of the guard dangles once its FrameData is destroyed
ViewAfter(hp, v) == IF v # NoBuf /\ v # Torn /\ LiveBuf(hp, v) THEN v ELSE Torn

\* triple_buffer_renderer.cpp:73  ensure_gl_resources_created(frame.cols, frame.rows)
\* (lines 32-61): a size change of an initialized renderer runs reset() first
A_ensure ==
    /\ upc = "a_ensure"
    /\ IF gl.initialized_ /\ uloc.cols_rows = gl.width_height_
       THEN UNCHANGED <<heap, buffers_, gl, uloc>>
       ELSE LET wipe == gl.initialized_
                hp == IF wipe THEN ResetFrames(heap) ELSE heap
                bs == IF wipe THEN ResetSlots(buffers_) ELSE buffers_
            IN  /\ heap' = hp
                /\ buffers_' = [i \in Slots |-> [bs[i] EXCEPT !.texture = i + 1, !.pbo = i + 1]]
                /\ gl' = [initialized_ |-> TRUE, width_height_ |-> uloc.cols_rows,
                          image |-> [i \in Slots |-> 0]]
                /\ uloc' = [uloc EXCEPT !.view = ViewAfter(hp, @)]
    /\ upc' = "a_map"
    /\ UNCHANGED <<TbIdx, spc, sloc>> /\ TbRest

\* triple_buffer_renderer.cpp:76-89  cvtColor; glBufferData; ptr = glMapBuffer(...)
A_map ==
    /\ upc = "a_map"
    /\ \E ok \in BOOLEAN :
          uloc' = [uloc EXCEPT !.ptr = ok, !.transfer = IF ok THEN "done" ELSE "failed",
                               !.lost = @ \/ (uloc.track /\ ~ok)]
    /\ upc' = "a_copy"
    /\ UNCHANGED <<heap, TbIdx, buffers_, gl, spc, sloc>> /\ TbRest

\* what the pixels behind the guard's view read as: a live view reads its frame's tag;
\* a garbage view, or one whose FrameData a concurrent submit_frame destroyed, reads
\* anything (0) unless the memory already holds another frame
ViewTag ==
    IF uloc.view = Torn \/ uloc.view = NoBuf THEN 0
    ELSE IF LiveBuf(heap, uloc.view) THEN heap.px[uloc.view].tag ELSE 0

\* triple_buffer_renderer.cpp:91-104  if (ptr) { memcpy; glTexSubImage2D into slot.texture }
A_copy ==
    /\ upc = "a_copy"
    /\ gl' = IF uloc.ptr THEN [gl EXCEPT !.image[UploadSlot] = ViewTag] ELSE gl
    /\ upc' = "a_release"
    /\ UNCHANGED <<heap, TbIdx, buffers_, spc, sloc, uloc>> /\ TbRest

\* triple_buffer_renderer.cpp:105  ~ReadGuard: ref_.release_read() on slot.frame as it is now
A_release ==
    /\ upc = "a_release"
    /\ LET h == SlotFrame[UploadSlot]
       IN  heap' = IF heap.data_[h] = Torn THEN heap ELSE release_read(heap, h)
    /\ uloc' = [uloc EXCEPT !.view = NoBuf, !.cols_rows = "0x0", !.ptr = FALSE]
    /\ upc' = "u_loadd"
    /\ UNCHANGED <<TbIdx, buffers_, gl, spc, sloc>> /\ TbRest

\* triple_buffer_renderer.cpp:152  int display_idx = display_idx_.load()
U_loadd ==
    /\ upc = "u_loadd"
    /\ uloc' = [uloc EXCEPT !.display_idx = display_idx_]
    /\ upc' = "u_storeu2"
    /\ UNCHANGED <<heap, TbIdx, buffers_, gl, spc, sloc>> /\ TbRest

\* triple_buffer_renderer.cpp:153  upload_idx_.store(display_idx)
U_storeu2 ==
    /\ upc = "u_storeu2"
    /\ upload_idx_' = uloc.display_idx
    /\ upc' = "u_stored"
    /\ UNCHANGED <<heap, write_idx_, display_idx_, buffers_, gl, spc, sloc, uloc>> /\ TbRest

\* triple_buffer_renderer.cpp:154-156  display_idx_.store(upload_idx); return
U_stored ==
    /\ upc = "u_stored"
    /\ display_idx_' = uloc.upload_idx
    /\ upc' = "idle"
    /\ uloc' = [uloc EXCEPT !.last = "update",
                            !.shown = IF uloc.track
                                      THEN Append(@, gl.image[uloc.upload_idx]) ELSE @]
    /\ UNCHANGED <<heap, write_idx_, upload_idx_, buffers_, gl, spc, sloc>> /\ TbRest

\* triple_buffer_renderer.cpp:158-165  the render thread asks for the texture to draw
get_texture_id ==
    IF ~gl.initialized_ THEN 0 ELSE buffers_[display_idx_].texture

G_get ==
    /\ upc = "idle"
    /\ uloc' = [uloc EXCEPT !.last = "get_texture_id", !.texture_id = get_texture_id]
    /\ UNCHANGED <<heap, TbIdx, buffers_, gl, spc, sloc, upc>> /\ TbRest

\* TripleBufferRenderer::reset as a function of the renderer's state
\* (triple_buffer_renderer.cpp:167-189): nothing happens unless initialized_
TbReset(st) ==
    IF ~st.gl.initialized_ THEN st
    ELSE [heap |-> ResetFrames(st.heap),
          buffers_ |-> ResetSlots(st.buffers_),
          gl |-> [initialized_ |-> FALSE, width_height_ |-> "0x0",
                  image |-> [i \in Slots |-> 0]]]

\* the render thread calls reset() between two update() calls, the producer being
\* outside submit_frame
R_reset ==
    /\ upc = "idle" /\ spc = "idle"
    /\ LET st == TbReset([heap |-> heap, buffers_ |-> buffers_, gl |-> gl])
       IN  heap' = st.heap /\ buffers_' = st.buffers_ /\ gl' = st.gl
    /\ uloc' = [uloc EXCEPT !.last = "reset", !.texture_id = 0]
    /\ UNCHANGED <<TbIdx, spc, sloc, upc>> /\ TbRest

TbSubmit == S_empty \/ S_load \/ S_frame \/ S_framed \/ S_stamp \/ S_ready

TbUpload == A_empty \/ A_guard \/ A_ensure \/ A_map \/ A_copy \/ A_release

TbUpdate == U_loadw \/ U_loadu \/ U_ready \/ U_storew \/ U_storeu \/ U_clear
               \/ TbUpload \/ U_loadd \/ U_storeu2 \/ U_stored

RenderInit ==
    /\ heap = DefaultCtor(DefaultCtor(DefaultCtor(EmptyHeap(TbHandles, {}), "b0"), "b1"), "b2")
    /\ TbFields
    /\ CowOff /\ RaceOff /\ FbOff /\ TmOff

\* the same renderer with the history recorded
RenderHistInit ==
    /\ heap = DefaultCtor(DefaultCtor(DefaultCtor(EmptyHeap(TbHandles, {}), "b0"), "b1"), "b2")
    /\ TbFieldsWith(TRUE)
    /\ CowOff /\ RaceOff /\ FbOff /\ TmOff

RenderNext ==
    \/ \E n \in 1..MaxSubmits, sz \in Sizes : S_call(n, sz)
    \/ S_call_empty
    \/ TbSubmit
    \/ TbUpdate
    \/ G_get
    \/ R_reset

SpecRender == RenderInit /\ [][RenderNext]_vars

(* C9: after any sequence of submit_frame and completed update calls, the   *)
(* write, upload and display indices are pairwise distinct members of       *)
(* {0,1,2}.                                                                 *)
RolesPermutationAfterUpdate ==
    upc = "idle" => /\ {write_idx_, upload_idx_, display_idx_} \subseteq Slots
                    /\ Cardinality({write_idx_, upload_idx_, display_idx_}) = NUM_BUFFERS

(* C10: at every reachable state, the states inside update() included, the  *)
(* three role indices are pairwise distinct.                                *)
RolesDistinctAlways ==
    write_idx_ # upload_idx_ /\ upload_idx_ # display_idx_ /\ write_idx_ # display_idx_

(* C11: when update() finds the write slot ready, the new upload index is   *)
(* the old write index, the new display index is the old upload index and   *)
(* the new write index is the old display index.                            *)
RotationMapping ==
    [][(upc = "u_stored" /\ upc' = "idle")
          => /\ upload_idx_' = uloc.write_idx
             /\ display_idx_' = uloc.upload_idx
             /\ write_idx_' = uloc.display_idx]_vars

(* C12: get_texture_id(), before any submit_frame and at any later time,    *)
(* returns a non-zero texture, that of the slot in the display role, and    *)
(* the dimensions are 0x0 before the first frame.                           *)
PresentationHandleValid ==
    uloc.last = "get_texture_id"
        => /\ uloc.texture_id # 0
           /\ uloc.texture_id = buffers_[display_idx_].texture
           /\ (sloc.submits = 0 /\ spc = "idle" => gl.width_height_ = "0x0")

(* C13: submit_frame never blocks: in every interleaving with update(), the *)
(* transfer step included, a producer inside submit_frame can always take   *)
(* its next step, and every step moves it one statement closer to the       *)
(* return, so the call completes in a bounded number of its own steps.      *)
SubmitNeverWaits ==
    /\ [](spc # "idle" => ENABLED TbSubmit)
    /\ [][LET rank == [pc \in {"idle", "s_empty", "s_load", "s_frame", "s_framed",
                                "s_stamp", "s_ready"} |->
                          CASE pc = "idle" -> 0 [] pc = "s_empty" -> 1
                            [] pc = "s_load" -> 2 [] pc = "s_frame" -> 3
                            [] pc = "s_framed" -> 4 [] pc = "s_stamp" -> 5
                            [] pc = "s_ready" -> 6]
           IN  spc' # spc => (spc' = "idle" \/ rank[spc'] = rank[spc] + 1)]_vars

\* the producer is about to finish a submit_frame while update() is inside its transfer
SubmitNeverWaitsWitness ==
    /\ spc = "s_ready" /\ upc \in {"a_ensure", "a_map", "a_copy"}
    /\ sloc.idx = UploadSlot

(* C14: with a producer submitting frames tagged 1, 2, 3, ... concurrently  *)
(* with update(), every frame update() transfers is wholly one submitted    *)
(* frame, and the tags of successively transferred frames never decrease.   *)
NoTornNoStalePresentation ==
    [][(upc = "a_copy" /\ upc' = "a_release" /\ uloc.ptr)
          => /\ gl'.image[UploadSlot] \in 1..MaxSubmits
             /\ \A i \in Slots : gl'.image[UploadSlot] >= gl.image[i]]_vars

(* C15: if the transfer step of update() fails (glMapBuffer yields no       *)
(* pointer), then when update() returns the display index is the one it     *)
(* had, the role indices are not rotated, and the ready flag of the write   *)
(* slot is still set so that the next update() retries.                     *)
TransferFailureKeepsRoles ==
    [][(upc = "u_stored" /\ upc' = "idle" /\ uloc.transfer = "failed")
          => /\ display_idx_' = uloc.display_idx
             /\ upload_idx_' = uloc.upload_idx
             /\ write_idx_' = uloc.write_idx
             /\ buffers_'[uloc.write_idx].ready]_vars

(* C16: the state after reset(); reset() equals the state after one         *)
(* reset(), and after reset() the renderer is in the state of a freshly     *)
(* constructed one, ready for new submit_frame calls.                       *)
ResetIdempotentAndFresh ==
    [][(uloc.last # "reset" /\ uloc'.last = "reset")
          => LET st == [heap |-> heap', buffers_ |-> buffers_', gl |-> gl']
             IN  /\ TbReset(st) = st
                 /\ \A i \in Slots : empty(heap', SlotFrame[i]) /\ ~buffers_'[i].ready
                 /\ ~gl'.initialized_ /\ gl'.width_height_ = "0x0"
                 /\ <<write_idx_', upload_idx_', display_idx_'>> = <<0, 1, 2>>]_vars

(* C17: after reset() returns from any reachable state, a state with        *)
(* submitted frames and no transfer resources yet included, all three slots *)
(* hold no frame, every ready flag is clear and the dimensions are 0x0.     *)
ResetPostcondition ==
    [][(uloc.last # "reset" /\ uloc'.last = "reset")
          => /\ \A i \in Slots : empty(heap', SlotFrame[i])
             /\ \A i \in Slots : ~buffers_'[i].ready
             /\ gl'.width_height_ = "0x0"]_vars

(* ======================================================================= *)
(* SpecFrame: one thread using two FrameRef handles x and y through the    *)
(* whole public interface, reset() and rebinding included; lastOp records   *)
(* the call that returned last and what it returned.                        *)
(* ======================================================================= *)
FrameHandles == {"x", "y"}

\* FrameRef::size: cv::Size(0, 0) without data or with an empty cv::Mat
size(hp, h) == IF empty(hp, h) THEN "0x0" ELSE "640x480"

\* FrameRef::use_count
use_count(hp, h) == IF hp.data_[h] = Null THEN 0 ELSE UseCount(hp, hp.data_[h])

\* FrameRef::reader_count
reader_count(hp, h) == IF hp.data_[h] = Null THEN 0 ELSE hp.readers_[hp.data_[h]]

FrameInit ==
    /\ heap = DefaultCtor(FromNewMat(EmptyHeap(FrameHandles, {}), "x", 0), "y")
    /\ pending = [h \in FrameHandles |-> 0]
    /\ lastOp = [op |-> "none"]
    /\ RaceOff /\ FbOff /\ TbOff /\ TmOff

\* h = FrameRef(std::move(mat)) with a newly produced image
F_new(h, v) ==
    /\ heap' = FromNewMat(heap, h, v)
    /\ lastOp' = [op |-> "new", h |-> h]
    /\ UNCHANGED pending /\ CowRest

\* dst = src
F_copy(dst, src) ==
    /\ dst # src
    /\ heap' = CopyAssign(heap, dst, src)
    /\ lastOp' = [op |-> "copy", h |-> dst]
    /\ UNCHANGED pending /\ CowRest

\* dst = src.clone()
F_clone(dst, src) ==
    /\ dst # src
    /\ heap' = clone(heap, dst, src)
    /\ lastOp' = [op |-> "clone", h |-> dst, src |-> src]
    /\ UNCHANGED pending /\ CowRest

\* h.reset()
F_reset(h) ==
    /\ heap' = reset(heap, h)
    /\ lastOp' = [op |-> "reset", h |-> h]
    /\ UNCHANGED pending /\ CowRest

\* const cv::Mat& view = h.read(); the view stays open
F_read(h) ==
    /\ pending["x"] + pending["y"] < MaxReads
    /\ reader_count(heap, h) < MaxReads
    /\ heap' = read(heap, h)
    /\ pending' = [pending EXCEPT ![h] = @ + 1]
    /\ lastOp' = [op |-> "read", h |-> h, view |-> BufOf(heap, h),
                  quiet |-> \A d \in FdIds : heap.readers_[d] = 0]
    /\ CowRest

\* h.release_read() for an earlier h.read()
F_release(h) ==
    /\ pending[h] > 0
    /\ reader_count(heap, h) > -MaxReads
    /\ heap' = release_read(heap, h)
    /\ pending' = [pending EXCEPT ![h] = @ - 1]
    /\ lastOp' = [op |-> "release_read", h |-> h]
    /\ CowRest

\* cv::Mat& w = h.write(); the pixels are then overwritten through w
F_write(h, v) ==
    /\ LET hp == write(heap, h)
       IN  /\ heap' = Mutate(hp, BufOf(hp, h), v)
           /\ lastOp' = [op |-> "write", h |-> h, view |-> BufOf(hp, h)]
    /\ UNCHANGED pending /\ CowRest

FrameNext ==
    \/ \E h \in FrameHandles, v \in Pixels : F_new(h, v)
    \/ \E dst, src \in FrameHandles : F_copy(dst, src)
    \/ \E dst, src \in FrameHandles : F_clone(dst, src)
    \/ \E h \in FrameHandles : F_reset(h)
    \/ \E h \in FrameHandles : F_read(h)
    \/ \E h \in FrameHandles : F_release(h)
    \/ \E h \in FrameHandles, v \in Pixels : F_write(h, v)

SpecFrame == FrameInit /\ [][FrameNext]_vars

(* C18: if the handle's FrameData has use_count 1 and no readers, write()   *)
(* returns a view of the same buffer without copying; otherwise it copies   *)
(* into a new buffer and the other holders keep the original; in both       *)
(* cases the handle has use_count() = 1 and reader_count() = 0 afterwards.  *)
WriteDecisionAndPostcondition ==
    [][(lastOp'.op = "write" /\ heap.data_[lastOp'.h] # Null)
          => LET h == lastOp'.h
                 g == CHOOSE k \in FrameHandles : k # h
                 d == heap.data_[h]
             IN  /\ IF UseCount(heap, d) = 1 /\ heap.readers_[d] = 0
                    THEN heap'.data_[h] = d /\ lastOp'.view = BufOf(heap, h)
                    ELSE /\ heap'.data_[h] # d
                         /\ (BufOf(heap, h) # NoBuf => lastOp'.view # BufOf(heap, h))
                         /\ heap'.data_[g] = heap.data_[g]
                         /\ Obs(heap', g) = Obs(heap, g)
                 /\ use_count(heap', h) = 1
                 /\ reader_count(heap', h) = 0]_vars

(* C19: clone() gives a frame with a buffer of its own whose contents equal *)
(* the source's at the call, use_count 1 and no readers; the source's       *)
(* contents, use_count and reader count are unchanged (the use_count apart  *)
(* from the share that the overwritten destination handle gave up); and a   *)
(* later write() on either frame is never visible through the other.        *)
CloneIndependent ==
    [][/\ lastOp'.op = "clone"
            => LET dst == lastOp'.h
                   src == lastOp'.src
               IN  /\ empty(heap', dst) = empty(heap, src)
                   /\ ~empty(heap, src)
                        => /\ heap'.px[BufOf(heap', dst)] = heap.px[BufOf(heap, src)]
                           /\ BufOf(heap', dst) # BufOf(heap', src)
                   /\ heap'.data_[dst] # heap'.data_[src]
                   /\ use_count(heap', dst) = 1 /\ reader_count(heap', dst) = 0
                   /\ heap'.data_[src] = heap.data_[src]
                   /\ Obs(heap', src) = Obs(heap, src)
                   /\ reader_count(heap', src) = reader_count(heap, src)
                   /\ use_count(heap', src) =
                         IF heap.data_[dst] = heap.data_[src] /\ heap.data_[src] # Null
                         THEN use_count(heap, src) - 1 ELSE use_count(heap, src)
       /\ lastOp'.op = "write"
            => \A g \in FrameHandles \ {lastOp'.h} : Obs(heap', g) = Obs(heap, g)]_vars

\* y = x.clone() of a frame with pixels has just returned
CloneIndependentWitness ==
    /\ lastOp.op = "clone" /\ ~empty(heap, lastOp.h)
    /\ Obs(heap, lastOp.h) = Obs(heap, lastOp.src)
    /\ BufOf(heap, lastOp.h) # BufOf(heap, lastOp.src)

(* C20: a handle that holds no buffer (default-constructed or after         *)
(* reset()) is inert: empty() is true, size() is 0x0 and use_count() and    *)
(* reader_count() are defined (0 without data); read() and write() yield an *)
(* empty cv::Mat and leave the handle empty, clone() yields an empty frame, *)
(* and a read()/release_read() pair started with all reader counts at 0     *)
(* leaves every reader count at 0.                                          *)
EmptyFrameInert ==
    /\ [](\A h \in FrameHandles :
             /\ heap.data_[h] = Null
                  => (empty(heap, h) /\ use_count(heap, h) = 0 /\ reader_count(heap, h) = 0)
             /\ empty(heap, h) => (size(heap, h) = "0x0" /\ BufOf(heap, h) = NoBuf))
    /\ [][/\ (lastOp'.op \in {"read", "write"} /\ empty(heap, lastOp'.h))
               => (lastOp'.view = NoBuf /\ empty(heap', lastOp'.h))
          /\ (lastOp'.op = "read" /\ heap.data_[lastOp'.h] = Null) => heap' = heap
          /\ (lastOp'.op = "write" /\ heap.data_[lastOp'.h] = Null)
               => (use_count(heap', lastOp'.h) = 1 /\ reader_count(heap', lastOp'.h) = 0)
          /\ (lastOp'.op = "clone" /\ empty(heap, lastOp'.src))
               => /\ empty(heap', lastOp'.h) /\ size(heap', lastOp'.h) = "0x0"
                  /\ heap'.data_[lastOp'.src] = heap.data_[lastOp'.src]
          /\ (/\ lastOp.op = "read" /\ lastOp.quiet /\ empty(heap, lastOp.h)
              /\ lastOp'.op = "release_read" /\ lastOp'.h = lastOp.h)
               => \A d \in FdIds : heap'.readers_[d] = 0]_vars

\* a read()/release_read() pair on a default-constructed handle has just ended, the
\* other handle being reset
EmptyFrameInertWitness ==
    /\ lastOp.op = "release_read" /\ heap.data_[lastOp.h] # Null /\ empty(heap, lastOp.h)
    /\ \E g \in FrameHandles : heap.data_[g] = Null
    /\ \A d \in FdIds : heap.readers_[d] = 0

(* ======================================================================= *)
(* TextureManager: used from the render thread only, one call at a time.   *)
(* Handles: last_frame_ (the member), farg (the caller's frame), got (what *)
(* get_last_frame returned). Pixels are [tag, size] as above. The GL       *)
(* driver may refuse a texture name (glGenTextures leaves the id 0) or a   *)
(* transfer (glTexImage2D raises a GL error and stores nothing).           *)
(* ======================================================================= *)
TmHandles == {"last_frame_", "farg", "got"}

\* texture_manager.h:68-71  texture_id_ = 0, width_ = 0, height_ = 0, FrameRef last_frame_;
\* image is the content of the texture object, made counts the caller's frames
SinkInit ==
    /\ heap = DefaultCtor(EmptyHeap(TmHandles, {}), "last_frame_")
    /\ tm = [texture_id_ |-> 0, width_height_ |-> "0x0",
             image |-> [tag |-> 0, size |-> "0x0"], made |-> 0]
    /\ pending = <<>>
    /\ lastOp = [op |-> "none"]
    /\ RaceOff /\ FbOff /\ TbOff

TmRest == UNCHANGED <<pending, raceVars, fbVars, tbVars>>

\* texture_manager.cpp:16-27: glGenTextures on the first use, the name stays 0 on failure
ensure_texture_created(id, genOk) ==
    IF id = 0 THEN (IF genOk THEN 1 ELSE 0) ELSE id

\* texture_manager.cpp:63-115 on [heap, tm]: the frame h is read under a ReadGuard,
\* converted to RGB (same cols and rows), handed to glTexImage2D, and retained
upload_frame(st, h, genOk, texOk) ==
    IF empty(st.heap, h) THEN st
    ELSE LET guarded == read(st.heap, h)
             frame == st.heap.px[BufOf(st.heap, h)]
             id == ensure_texture_created(st.tm.texture_id_, genOk)
             img == IF id # 0 /\ texOk THEN [tag |-> frame.tag, size |-> frame.size]
                    ELSE st.tm.image
             kept == CopyAssign(guarded, "last_frame_", h)
         IN  [heap |-> release_read(kept, h),
              tm |-> [st.tm EXCEPT !.texture_id_ = id, !.image = img,
                                   !.width_height_ = frame.size]]

\* texture_manager.cpp:117-125
TmReset(st) ==
    [heap |-> reset(st.heap, "last_frame_"),
     tm |-> [st.tm EXCEPT !.texture_id_ = 0, !.width_height_ = "0x0",
                          !.image = [tag |-> 0, size |-> "0x0"]]]

\* the caller produces frame n with dimensions sz
T_frame(n, sz) ==
    /\ n = tm.made + 1 /\ n <= MaxUploads
    /\ heap' = FromNewMat(heap, "farg", [tag |-> n, size |-> sz])
    /\ tm' = [tm EXCEPT !.made = n]
    /\ lastOp' = [op |-> "frame"]
    /\ TmRest

\* the caller's frame is FrameRef()
T_frame_empty ==
    /\ heap' = DefaultCtor(heap, "farg")
    /\ heap' # heap
    /\ lastOp' = [op |-> "frame"]
    /\ UNCHANGED tm /\ TmRest

\* the caller lets its frame go (farg.reset())
T_drop ==
    /\ heap.data_["farg"] # Null
    /\ heap' = reset(heap, "farg")
    /\ lastOp' = [op |-> "drop"]
    /\ UNCHANGED tm /\ TmRest

\* texture_manager.upload_frame(farg); the function is void and checks no GL error
T_upload(genOk, texOk) ==
    /\ LET st == upload_frame([heap |-> heap, tm |-> tm], "farg", genOk, texOk)
       IN  /\ heap' = st.heap
           /\ tm' = st.tm
           /\ lastOp' = [op |-> "upload", arg_empty |-> empty(heap, "farg"),
                         transferred |-> (~empty(heap, "farg") /\ st.tm.texture_id_ # 0
                                          /\ texOk),
                         result |-> "void"]
    /\ TmRest

\* texture_manager.h:58  got = get_last_frame()
T_get ==
    /\ heap' = CopyAssign(heap, "got", "last_frame_")
    /\ lastOp' = [op |-> "get_last_frame"]
    /\ UNCHANGED tm /\ TmRest

\* texture_manager.reset()
T_reset ==
    /\ LET st == TmReset([heap |-> heap, tm |-> tm])
       IN  heap' = st.heap /\ tm' = st.tm
    /\ lastOp' = [op |-> "reset"]
    /\ TmRest

SinkNext ==
    \/ \E n \in 1..MaxUploads, sz \in Sizes : T_frame(n, sz)
    \/ T_frame_empty
    \/ T_drop
    \/ \E genOk, texOk \in BOOLEAN : T_upload(genOk, texOk)
    \/ T_get
    \/ T_reset

SpecSink == SinkInit /\ [][SinkNext]_vars

\* the tag of the frame a handle names (0: none)
FrameTag(hp, h) == IF empty(hp, h) THEN 0 ELSE hp.px[BufOf(hp, h)].tag

(* C24: after upload_frame(f) with a non-empty f, get_last_frame() shares   *)
(* f's FrameData and pixel buffer (no copy; the owners include the sink),   *)
(* the dimensions are f's, and last_frame_ is at all times the frame most   *)
(* recently transferred to the texture with success.                        *)
SinkRetainsUploadedFrame ==
    /\ [](FrameTag(heap, "last_frame_") = tm.image.tag)
    /\ [][(lastOp'.op = "upload" /\ ~empty(heap, "farg"))
            => /\ heap'.data_["last_frame_"] = heap.data_["farg"]
               /\ BufOf(heap', "last_frame_") = BufOf(heap, "farg")
               /\ UseCount(heap', heap.data_["farg"]) >= 2
               /\ heap'.px[BufOf(heap, "farg")] = heap.px[BufOf(heap, "farg")]
               /\ heap'.readers_ = heap.readers_
               /\ tm'.width_height_ = heap.px[BufOf(heap, "farg")].size]_vars

(* C25: an upload_frame call whose texture creation or transfer fails       *)
(* reports the failure to its caller and leaves get_texture_id(), the       *)
(* dimensions and get_last_frame() as they were before the call.            *)
FailedUploadLeavesSinkUnchanged ==
    [][(lastOp'.op = "upload" /\ ~lastOp'.arg_empty /\ ~lastOp'.transferred)
          => /\ lastOp'.result = "failure"
             /\ tm'.texture_id_ = tm.texture_id_
             /\ tm'.width_height_ = tm.width_height_
             /\ heap'.data_["last_frame_"] = heap.data_["last_frame_"]]_vars

(* ----------------------------------------------------------------------- *)
(* SpecComponents: the three components that accept frames, each on its    *)
(* own (they share no state): a FrameBuffer with its two threads, a         *)
(* TripleBufferRenderer with its two threads, or a TextureManager.          *)
(* ----------------------------------------------------------------------- *)
ComponentsInit == HandoffInit \/ RenderInit \/ SinkInit

ComponentsNext ==
    \/ HandoffNext
    \/ RenderNext
    \/ (lastOp.op # "off" /\ SinkNext)

SpecComponents == ComponentsInit /\ [][ComponentsNext]_vars

(* C23: store_frame, submit_frame and upload_frame called with an empty     *)
(* frame return normally and leave the component as it was: the stored      *)
(* frame, the consumed / ready flags, the generated and dropped counters,   *)
(* the role indices, the texture, the dimensions and the retained frame.    *)
DegenerateInputIsNoOp ==
    [][/\ (ppc = "p_empty" /\ ppc' = "idle")
            => /\ UNCHANGED <<frame_consumed_, frames_dropped_, frames_generated_, mutex_,
                              accepted, returned>>
               /\ heap'.data_["current_frame_"] = heap.data_["current_frame_"]
               /\ Obs(heap', "current_frame_") = Obs(heap, "current_frame_")
       /\ (spc = "s_empty" /\ spc' = "idle")
            => /\ UNCHANGED <<write_idx_, upload_idx_, display_idx_, buffers_, gl>>
               /\ \A i \in Slots :
                     /\ heap'.data_[SlotFrame[i]] = heap.data_[SlotFrame[i]]
                     /\ Obs(heap', SlotFrame[i]) = Obs(heap, SlotFrame[i])
       /\ (lastOp'.op = "upload" /\ lastOp'.arg_empty)
            => /\ tm' = tm
               /\ heap' = heap
               /\ lastOp'.result = "void"]_vars

\* an empty frame was given to a TextureManager that holds a frame and a texture
DegenerateInputIsNoOpWitness ==
    /\ lastOp.op = "upload" /\ lastOp.arg_empty
    /\ tm.texture_id_ # 0 /\ tm.width_height_ # "0x0"
    /\ ~empty(heap, "last_frame_")

(* ----------------------------------------------------------------------- *)
(* SpecRenderSerial: the renderer driven by callers that never overlap      *)
(* submit_frame with update (one thread, or externally serialised).         *)
(* ----------------------------------------------------------------------- *)
RenderSerialNext ==
    \/ (upc = "idle" /\ \E n \in 1..MaxSubmits, sz \in Sizes : S_call(n, sz))
    \/ (upc = "idle" /\ S_call_empty)
    \/ TbSubmit
    \/ (spc = "idle" /\ TbUpdate)
    \/ G_get
    \/ R_reset

SpecRenderSerial == RenderHistInit /\ [][RenderSerialNext]_vars

(* C26: after submit_frame(f) with a non-empty f and no update() running    *)
(* meanwhile, the slot in the write role holds f and is marked ready, and   *)
(* the call changed neither the three role indices nor the other two slots; *)
(* a second submit_frame(g) before any update() puts g in that same slot.   *)
SubmitPostcondition ==
    [][/\ (spc = "s_ready" /\ spc' = "idle")
            => /\ sloc.idx = write_idx_
               /\ heap'.data_[SlotFrame[write_idx_]] = heap.data_["sarg"]
               /\ FrameTag(heap', SlotFrame[write_idx_]) = sloc.tag
               /\ sloc.tag = sloc.submits + 1
               /\ buffers_'[write_idx_].ready
               /\ buffers_'[write_idx_].timestamp = sloc.tag
       /\ (spc # spc' /\ spc # "idle")
            => /\ UNCHANGED <<write_idx_, upload_idx_, display_idx_, gl>>
               /\ \A i \in Slots \ {write_idx_} :
                     /\ buffers_'[i] = buffers_[i]
                     /\ heap'.data_[SlotFrame[i]] = heap.data_[SlotFrame[i]]
                     /\ Obs(heap', SlotFrame[i]) = Obs(heap, SlotFrame[i])]_vars

\* two frames were submitted before any update(): the write slot holds the second
SubmitPostconditionWitness ==
    /\ spc = "idle" /\ upc = "idle" /\ sloc.submits = 2
    /\ write_idx_ = 0 /\ upload_idx_ = 1 /\ display_idx_ = 2 /\ ~gl.initialized_
    /\ buffers_[0].ready /\ FrameTag(heap, "b0") = 2
    /\ empty(heap, "b1") /\ empty(heap, "b2")

(* ----------------------------------------------------------------------- *)
(* SpecRenderSteady: a producer that submits frames of one size and the     *)
(* render thread calling update(), long enough for a slot to come back to   *)
(* the write role.                                                          *)
(* ----------------------------------------------------------------------- *)
RenderSteadyNext ==
    \/ \E n \in 1..MaxSteadySubmits : S_call(n, "640x480")
    \/ TbSubmit
    \/ TbUpdate

SpecRenderSteady == RenderHistInit /\ [][RenderSteadyNext]_vars

\* a submit_frame call has completed into slot i since i last entered the write role
SubmittedSinceEntered(i) == sloc.done[i] > uloc.entered[i]

(* C27: when an update() that rotated returns, the slot now in the write    *)
(* role has its ready flag clear unless a submit_frame has completed into   *)
(* it since it took that role, and in every interleaving update() only      *)
(* picks up a slot into which a submit_frame has completed after that slot  *)
(* last entered the write role.                                             *)
ReadyOnlyAfterFreshSubmit ==
    [][/\ (upc = "u_stored" /\ upc' = "idle" /\ buffers_'[write_idx_'].ready)
            => sloc'.done[write_idx_'] > uloc'.entered[write_idx_']
       /\ (upc = "u_ready" /\ upc' = "u_storew")
            => SubmittedSinceEntered(uloc.write_idx)]_vars

(* C28: every frame picked up by a rotating update() is transferred and is  *)
(* the image of the display slot after that update() or one of the next two *)
(* rotating ones (no transfer having failed); in particular the first frame *)
(* submitted is displayed.                                                  *)
BoundedLatencyToDisplay ==
    (upc = "idle" /\ ~uloc.lost)
        => \A k \in 1..Len(uloc.shown) :
              k + 2 <= Len(uloc.shown)
                 => uloc.picked[k] \in {uloc.shown[k], uloc.shown[k + 1], uloc.shown[k + 2]}

(* ======================================================================= *)
(* SpecReaders: three threads, each with its own FrameRef copy (t1, t2,    *)
(* t3) of one of two frames (held by a and b), calling read() and          *)
(* release_read() concurrently. Each call is one atomic fetch_add /        *)
(* fetch_sub on FrameData::readers_ (std::atomic<int>); the data_ test     *)
(* before it reads the thread's own handle.                                *)
(* ======================================================================= *)
ReaderThreads == {"t1", "t2", "t3"}
ReaderHandles == ReaderThreads \cup {"a", "b"}

ReadersInit ==
    /\ heap = LET h0 == FromNewMat(FromNewMat(EmptyHeap(ReaderHandles, {}), "a", 0),
                                   "b", 255)
              IN  CopyAssign(CopyAssign(CopyAssign(h0, "t1", "a"), "t2", "a"), "t3", "a")
    /\ pending = [t \in ReaderThreads |-> 0]
    /\ lastOp = [op |-> "none"]
    /\ RaceOff /\ FbOff /\ TbOff /\ TmOff

\* thread t, holding no view, takes a copy of the other frame: t = src
K_bind(t, src) ==
    /\ pending[t] = 0
    /\ heap.data_[t] # heap.data_[src]
    /\ heap' = CopyAssign(heap, t, src)
    /\ lastOp' = [op |-> "bind", h |-> t]
    /\ UNCHANGED pending /\ CowRest

\* frame_ref.h:82-89  thread t calls read() on its handle
K_read(t) ==
    /\ pending[t] < MaxOpen
    /\ heap' = read(heap, t)
    /\ pending' = [pending EXCEPT ![t] = @ + 1]
    /\ lastOp' = [op |-> "read", h |-> t]
    /\ CowRest

\* frame_ref.h:96-100  thread t calls release_read() for one of its read() calls
K_release(t) ==
    /\ pending[t] > 0
    /\ heap' = release_read(heap, t)
    /\ pending' = [pending EXCEPT ![t] = @ - 1]
    /\ lastOp' = [op |-> "release_read", h |-> t]
    /\ CowRest

ReadersNext ==
    \/ \E t \in ReaderThreads, src \in {"a", "b"} : K_bind(t, src)
    \/ \E t \in ReaderThreads : K_read(t)
    \/ \E t \in ReaderThreads : K_release(t)

SpecReaders == ReadersInit /\ [][ReadersNext]_vars

\* the read() calls not yet released on handles that name FrameData d
OpenReadsOn(d) ==
    (IF heap.data_["t1"] = d THEN pending["t1"] ELSE 0)
  + (IF heap.data_["t2"] = d THEN pending["t2"] ELSE 0)
  + (IF heap.data_["t3"] = d THEN pending["t3"] ELSE 0)

(* C29: with k threads in read() on handles that share one buffer the       *)
(* reader count has risen by exactly k, each release_read() takes it down   *)
(* by one, so that it equals the number of read() calls still open, and     *)
(* neither call changes the ownership count or the pixels.                  *)
ConcurrentReadsCounted ==
    /\ [](\A d \in FdIds : LiveFd(heap, d) => heap.readers_[d] = OpenReadsOn(d))
    /\ [][lastOp'.op \in {"read", "release_read"}
            => LET d == heap.data_[lastOp'.h]
               IN  /\ heap'.readers_[d] = heap.readers_[d]
                                           + (IF lastOp'.op = "read" THEN 1 ELSE -1)
                   /\ \A e \in FdIds \ {d} : heap'.readers_[e] = heap.readers_[e]
                   /\ \A e \in FdIds : UseCount(heap', e) = UseCount(heap, e)
                   /\ heap'.data_ = heap.data_ /\ heap'.mat_ = heap.mat_
                   /\ heap'.px = heap.px]_vars

\* all three threads have a view open on the frame a holds, one of them twice
ConcurrentReadsCountedWitness ==
    /\ \A t \in ReaderThreads : heap.data_[t] = heap.data_["a"] /\ pending[t] >= 1
    /\ heap.readers_[heap.data_["a"]] = 4
    /\ UseCount(heap, heap.data_["a"]) = 4

\* submit_frame is between loading write_idx_ and returning: it writes slot sloc.idx
SubmitWriting == spc \in {"s_frame", "s_framed", "s_stamp", "s_ready"}

\* update() is inside async_upload_frame, reading buffers_[UploadSlot].frame
TransferReading == upc \in {"a_empty", "a_guard", "a_ensure", "a_map", "a_copy", "a_release"}

(* C30: in no reachable state is the slot a concurrent submit_frame writes   *)
(* (the slot in the write role) also the slot whose frame update() is        *)
(* reading for the transfer, or the slot in the display role.                *)
StageSeparation ==
    /\ TransferReading => UploadSlot # write_idx_
    /\ (SubmitWriting /\ TransferReading) => sloc.idx # UploadSlot
    /\ SubmitWriting => sloc.idx # display_idx_
    /\ upc = "idle" => write_idx_ # display_idx_

(* C31: update() without a ready frame is a no-op: when the slot in the     *)
(* write role is not marked ready, the call returns after the check, having *)
(* left the three role indices, every slot's frame, ready flag, texture and *)
(* buffer object, the handle get_texture_id() returns and the dimensions as *)
(* they were, and having started no transfer.                               *)
UpdateWithoutReadyIsNoOp ==
    [][/\ (upc \in {"idle", "u_loadu", "u_ready"} /\ upc' # upc)
            => /\ UNCHANGED <<write_idx_, upload_idx_, display_idx_>>
               /\ UNCHANGED <<heap, buffers_, gl>>
               /\ get_texture_id' = get_texture_id
       /\ (upc = "u_ready" /\ upc' # upc)
            => /\ (upc' = "idle") <=> ~buffers_[write_idx_].ready
               /\ (upc' = "u_storew") <=> buffers_[write_idx_].ready
               /\ upc' = "idle" => uloc'.transfer = "none" /\ uloc'.last = "update"]_vars

\* an update() has returned without rotating while the producer had stored its frame
\* in the write slot and not yet marked it ready, after an earlier frame was shown
UpdateWithoutReadyIsNoOpWitness ==
    /\ upc = "idle" /\ uloc.last = "update" /\ uloc.transfer = "none"
    /\ uloc.write_idx = write_idx_ /\ uloc.upload_idx = upload_idx_
    /\ ~buffers_[write_idx_].ready
    /\ spc = "s_ready" /\ sloc.idx = write_idx_
    /\ gl.initialized_ /\ get_texture_id # 0

(* C32: TextureManager::get_texture_id() is 0 exactly when no upload_frame  *)
(* has succeeded since construction or the last reset(); the first          *)
(* successful upload creates the texture, and every later upload, also one  *)
(* with other dimensions, keeps the same id until reset().                  *)
SinkHandleLifecycle ==
    /\ [](tm.texture_id_ = 0 <=> tm.image.tag = 0)
    /\ [][/\ (lastOp'.op = "upload" /\ lastOp'.transferred) => tm'.texture_id_ # 0
          /\ (lastOp'.op = "upload" /\ tm.texture_id_ # 0)
               => tm'.texture_id_ = tm.texture_id_
          /\ lastOp'.op = "reset" => tm'.texture_id_ = 0
          /\ lastOp'.op \notin {"upload", "reset"}
               => tm'.texture_id_ = tm.texture_id_]_vars

(* C33: over every sequence of read, release_read, write, reset and         *)
(* assignment in which each release_read() follows a read() on the same     *)
(* handle (as ReadGuard does), no FrameData's reader count is ever negative *)
(* and the count is the number of reads taken on it and not yet released,   *)
(* so it is 0 on every FrameData once every read is released.               *)
ReaderPairingSurvivesRebinding ==
    /\ \A d \in FdIds : heap.readers_[d] >= 0
    /\ (\A h \in FrameHandles : pending[h] = 0) => \A d \in FdIds : heap.readers_[d] = 0

(* C34: with one producer and one consumer, whenever no store_frame call is *)
(* in progress frames_generated() + frames_dropped() is the number of       *)
(* completed store_frame calls with a non-empty frame and                   *)
(* frames_generated() is the number of frames placed in current_frame_;     *)
(* no step ever decreases either counter.                                   *)
StoreAccountingIdentity ==
    /\ [](ppc = "idle" => /\ frames_generated_ + frames_dropped_ = submitted
                          /\ frames_generated_ = Len(accepted))
    /\ [][/\ frames_generated_' >= frames_generated_
          /\ frames_dropped_' >= frames_dropped_]_vars

\* three stores have returned, one of them dropped, the consumer having taken a frame
\* in between; both threads are outside their calls
StoreAccountingIdentityWitness ==
    /\ ppc = "idle" /\ cpc = "idle"
    /\ submitted = 3 /\ frames_generated_ = 2 /\ frames_dropped_ = 1
    /\ accepted = <<1, 3>> /\ returned = <<1>>

(* ----------------------------------------------------------------------- *)
(* SpecShare: the FrameBuffer of SpecHandoff whose consumer also calls     *)
(* write() on the frame consume_frame returned and overwrites the pixels   *)
(* through the cv::Mat& it gets, while the producer goes on storing.       *)
(* write() runs outside the mutex, in three steps: the test of line 120,   *)
(* the clone of line 122, the caller's stores into the pixels.             *)
(* ----------------------------------------------------------------------- *)
\* the consumer calls got.write() (frame_ref.h:113-118, data_ is set)
X_call ==
    /\ cpc = "idle" /\ heap.data_["got"] # Null
    /\ cpc' = "x_test"
    /\ UNCHANGED <<heap, ploc, frame_consumed_, frames_dropped_, frames_generated_, mutex_,
                   ppc, FbHist>>
    /\ FbRest

\* frame_ref.h:120  if (!data_.unique() || data_->readers_.load() > 0)
X_test ==
    /\ cpc = "x_test"
    /\ cpc' = IF NeedsCopy(heap, "got") THEN "x_copy" ELSE "x_mutate"
    /\ UNCHANGED <<heap, ploc, frame_consumed_, frames_dropped_, frames_generated_, mutex_,
                   ppc, FbHist>>
    /\ FbRest

\* frame_ref.h:122  data_ = std::make_shared<FrameData>(data_->mat_.clone())
X_copy ==
    /\ cpc = "x_copy"
    /\ heap' = CloneInto(heap, "got", heap.data_["got"])
    /\ cpc' = "x_mutate"
    /\ UNCHANGED <<ploc, frame_consumed_, frames_dropped_, frames_generated_, mutex_,
                   ppc, FbHist>>
    /\ FbRest

\* frame_ref.h:125  return data_->mat_; the consumer overwrites the pixels with v
X_mutate(v) ==
    /\ cpc = "x_mutate"
    /\ heap' = Mutate(heap, BufOf(heap, "got"), v)
    /\ cpc' = "idle"
    /\ UNCHANGED <<ploc, frame_consumed_, frames_dropped_, frames_generated_, mutex_,
                   ppc, FbHist>>
    /\ FbRest

ShareNext ==
    \/ \E n \in 1..MaxStores : P_call(n)
    \/ FbStore
    \/ FbConsumer
    \/ X_call
    \/ X_test
    \/ X_copy
    \/ \E v \in Pixels : X_mutate(v)

SpecShare == HandoffInit /\ [][ShareNext]_vars

\* current_frame_ and got name the same FrameData
SlotSharesGot ==
    heap.data_["got"] # Null /\ heap.data_["current_frame_"] = heap.data_["got"]

DimensionChangePreservesFrames ==
    /\ [][(upc = "a_ensure" /\ upc' = "a_map"
             /\ gl.initialized_ /\ uloc.cols_rows # gl.width_height_)
            => /\ heap'.data_[SlotFrame[UploadSlot]] = heap.data_[SlotFrame[UploadSlot]]
               /\ \A i \in Slots \ {UploadSlot} :
                     /\ heap'.data_[SlotFrame[i]] = heap.data_[SlotFrame[i]]
                     /\ buffers_'[i].ready = buffers_[i].ready]_vars
    /\ []((upc \in {"a_map", "a_copy", "a_release"} /\ spc = "idle")
             => heap.data_[SlotFrame[UploadSlot]] # Null)

====
